---- MODULE Spec2Model ----
(***************************************************************************)
(* structurs-derive: the derive macros Read and Write.                     *)
(*                                                                         *)
(* The module models the three stages of src/structurs-derive/src/lib.rs:  *)
(*   - the attribute model (Endian, Padding, Attributes::new),             *)
(*   - the shape resolver (array_type, ArrayLength),                       *)
(*   - the procedure synthesizer (get_func, get_body, derive_macro),       *)
(* and then the behaviour of the synthesized read and write procedures on  *)
(* a byte stream: the build of the generated tokens by the compiler and    *)
(* their execution, one field piece after the other.                       *)
(*                                                                         *)
(* Three specifications share the variables:                               *)
(*   SpecAttr  Attributes::new scanning the attributes of one field,       *)
(*   SpecPad   Attributes::new on a field with one pad attribute, of any   *)
(*             token shape,                                                *)
(*   Spec      derive_macro on a record, the build, and a call of the      *)
(*             generated read or write procedure.                          *)
(***************************************************************************)
EXTENDS Integers, Sequences, FiniteSets, TLC

VARIABLES
  \* ---- Attributes::new on one field (SpecAttr) ----
  seen,        \* the paths of the attributes scanned so far, in order
  parsed,      \* the tokens of the last attribute handed to Padding::parse
  attributes,  \* the Attributes value under construction: [endian, padding]
  astatus,     \* "scanning", or "panic" once generation aborted
  amsg,        \* the checkpoint whose panic aborted generation, "" if none
  \* ---- derive_macro, build and call (Spec) ----
  rec,         \* the record: the ordered list of its fields
  native,      \* the byte order of the target, "le" or "be"
  read,        \* derive_macro's flag: TRUE for Read, FALSE for Write
  phase,       \* "declared", "derived", "built", "running", "done"
  pieces,      \* impl_fields: the synthesized piece of every field
  bad,         \* the names of the fields whose piece the compiler rejects
  inp,         \* the bytes of the reader
  pos,         \* how many bytes of inp have been consumed
  out,         \* the bytes the writer accepted
  wleft,       \* how many more write calls the writer accepts before failing
  selfv,       \* the record value given to write: field name -> value
  value,       \* the field values read so far: field name -> value
  fi,          \* the index of the next piece to run
  trace,       \* per piece run: [field, pos0, pos1, out0, out1, ops, ok]
  status,      \* "", "ok", "err", "build_error"
  rt           \* TRUE once the written bytes are being read back

attrVars == <<seen, parsed, attributes, astatus, amsg>>
runVars == <<rec, native, read, phase, pieces, bad, inp, pos, out, wleft, selfv,
             value, fi, trace, status, rt>>
vars == <<seen, parsed, attributes, astatus, amsg, rec, native, read, phase,
          pieces, bad, inp, pos, out, wleft, selfv, value, fi, trace, status, rt>>

(***************************************************************************)
(* Bounds of the model.                                                    *)
(***************************************************************************)
MaxAttrs == 3    \* attributes on one field
MaxTok == 3      \* tokens inside the group of a pad attribute
MaxLit == 1      \* the largest integer literal in a pad attribute
MaxFields == 2   \* fields of a record
MaxLen == 2      \* the largest array length
MaxPad == 1      \* the largest explicit padding byte count
MaxIn == 6       \* the longest input stream

(***************************************************************************)
(* Token trees of an attribute (proc_macro2::TokenTree).                   *)
(***************************************************************************)
Ident(s) == [t |-> "Ident", s |-> s, v |-> 0, inner |-> <<>>]
Punct(c) == [t |-> "Punct", s |-> c, v |-> 0, inner |-> <<>>]
LitInt(n) == [t |-> "Literal", s |-> "Int", v |-> n, inner |-> <<>>]
LitStr == [t |-> "Literal", s |-> "Str", v |-> 0, inner |-> <<>>]
Group(d, ts) == [t |-> "Group", s |-> d, v |-> 0, inner |-> ts]

\* the tokens that may stand inside the delimiters of an attribute
LeafTokens ==
  {Ident("bytes"), Ident("size"), Punct("="), LitStr, Group("(", <<>>)}
    \cup {LitInt(n) : n \in 0..MaxLit}

SeqsUpTo(S, n) == UNION {[1..k -> S] : k \in 0..n}

\* the token streams an attribute can carry after its path: nothing,
\* one delimited group, or the name-value form `= literal`
AttrTokens ==
  {<<>>}
    \cup {<<Group(d, ts)>> : d \in {"(", "["}, ts \in SeqsUpTo(LeafTokens, MaxTok)}
    \cup {<<Punct("="), l>> : l \in {LitStr} \cup {LitInt(n) : n \in 0..MaxLit}}

\* a few of them: no arguments, a well-formed directive, a name-value form,
\* an empty group
SampleTokens ==
  {<<>>,
   <<Group("(", <<Ident("bytes"), Punct("="), LitInt(MaxLit)>>)>>,
   <<Punct("="), LitStr>>,
   <<Group("(", <<>>)>>}

\* the attribute paths: the helper attributes of the two derives, a foreign
\* attribute, and tool attributes whose path has two segments
AttrPaths ==
  {<<"le">>, <<"be">>, <<"ne">>, <<"pad">>, <<"doc">>,
   <<"rustfmt", "skip">>, <<"clippy", "ne">>}

(***************************************************************************)
(* Attribute model.                                                        *)
(***************************************************************************)
\* enum Endian, and its Default
Endians == {"Little", "Big", "Native", "Normal"}
EndianDefault == "Normal"

\* enum Padding, inside the Option of Attributes.padding
PadNone == [k |-> "None", n |-> 0]
PadNormal == [k |-> "Normal", n |-> 0]
PadBytes(n) == [k |-> "Bytes", n |-> n]
PaddingDefault == PadNormal

\* #[derive(Default)] struct Attributes
AttributesDefault == [endian |-> EndianDefault, padding |-> PadNone]

NoPanic(p) == [panic |-> FALSE, msg |-> "", padding |-> p]
Panic(m) == [panic |-> TRUE, msg |-> m, padding |-> PadNone]

\* Padding::parse: three checkpoints inside the first token when it is a
\* group; anything else leaves the default
PaddingParse(tokens) ==
  IF Len(tokens) > 0 /\ tokens[1].t = "Group"
  THEN LET g == tokens[1].inner IN
       IF ~(Len(g) >= 1 /\ g[1].t = "Ident") THEN Panic("expected ident") ELSE
       IF g[1].s # "bytes" THEN Panic("assert bytes") ELSE
       IF ~(Len(g) >= 2 /\ g[2].t = "Punct") THEN Panic("expected punct") ELSE
       IF g[2].s # "=" THEN Panic("assert =") ELSE
       IF ~(Len(g) >= 3 /\ g[3].t = "Literal") THEN Panic("expected literal") ELSE
       IF g[3].s # "Int" THEN Panic("expected integer") ELSE
       NoPanic(PadBytes(g[3].v))
  ELSE NoPanic(PaddingDefault)

\* Segment with a byte order that is kept once set: the first directive wins
Segment_FirstWins(st, ident, tokens) ==
  IF st.panic THEN st
  ELSE IF ident \in {"le", "be", "ne"}
       THEN IF st.a.endian # "Normal" THEN st
            ELSE [st EXCEPT !.a.endian =
                    CASE ident = "le" -> "Little"
                      [] ident = "be" -> "Big"
                      [] ident = "ne" -> "Native"]
  ELSE IF ident = "pad"
       THEN LET p == PaddingParse(tokens) IN
            IF p.panic THEN [st EXCEPT !.panic = TRUE, !.msg = p.msg]
            ELSE [st EXCEPT !.a.padding = p.padding]
  ELSE st

\* the body of the inner loop of Attributes::new for one path segment;
\* st is [a |-> Attributes, panic, msg]
Segment(st, ident, tokens) ==
  IF st.panic THEN st
  ELSE IF ident = "le" THEN [st EXCEPT !.a.endian = "Little"]
  ELSE IF ident = "be" THEN [st EXCEPT !.a.endian = "Big"]
  ELSE IF ident = "ne" THEN [st EXCEPT !.a.endian = "Native"]
  ELSE IF ident = "pad"
       THEN LET p == PaddingParse(tokens) IN
            IF p.panic THEN [st EXCEPT !.panic = TRUE, !.msg = p.msg]
            ELSE [st EXCEPT !.a.padding = p.padding]
  ELSE st

\* `for segment in &attr.path.segments`
RECURSIVE Segments(_, _, _, _)
Segments(st, path, i, tokens) ==
  IF i > Len(path) THEN st
  ELSE Segments(Segment(st, path[i], tokens), path, i + 1, tokens)

HasPad(path) == \E i \in 1..Len(path) : path[i] = "pad"

InitAttrVars ==
  /\ seen = <<>>
  /\ parsed = <<>>
  /\ attributes = AttributesDefault
  /\ astatus = "scanning"
  /\ amsg = ""

\* one iteration of `for attr in attrs` in Attributes::new
ScanAttr(path, tokens) ==
  LET st == Segments([a |-> attributes, panic |-> FALSE, msg |-> ""],
                     path, 1, tokens) IN
  /\ seen' = Append(seen, path)
  /\ parsed' = IF HasPad(path) THEN tokens ELSE parsed
  /\ attributes' = st.a
  /\ astatus' = IF st.panic THEN "panic" ELSE "scanning"
  /\ amsg' = st.msg
  /\ UNCHANGED runVars

\* the loop goes on until the attributes are exhausted or a panic aborts it
Scanning == astatus = "scanning" /\ Len(seen) < MaxAttrs

\* an attribute other than pad: its tokens are never looked at
ScanOther ==
  /\ Scanning
  /\ \E path \in {q \in AttrPaths : ~HasPad(q)} : ScanAttr(path, <<>>)

\* a pad attribute, with tokens among T
ScanPadOf(T) ==
  /\ Scanning
  /\ \E path \in {q \in AttrPaths : HasPad(q)}, tokens \in T :
       ScanAttr(path, tokens)

\* a pad attribute among attributes of every kind
ScanPad == ScanPadOf(SampleTokens)

\* the one pad attribute of a field, with any tokens
ScanOnePad ==
  /\ \A i \in 1..Len(seen) : ~HasPad(seen[i])
  /\ ScanPadOf(AttrTokens)

(***************************************************************************)
(* Shape resolver.                                                         *)
(***************************************************************************)
\* the primitive element types of the model and std::mem::size_of of each
Types == {"u8", "u16"}
SizeOf(ty) == CASE ty = "u8" -> 1 [] ty = "u16" -> 2 [] OTHER -> 0

\* a declared field type (syn::Type): a plain type, or syn::Type::Array
\* whose length is an integer literal (lit) or a constant expression that
\* resolves to n
ScalarTy(e) == [arr |-> FALSE, elem |-> e, lit |-> TRUE, n |-> 1]
ArrayTy(e, lit, n) == [arr |-> TRUE, elem |-> e, lit |-> lit, n |-> n]

\* enum ArrayLength
LenInt(n) == [k |-> "Int", n |-> n]
LenConst(n) == [k |-> "Const", n |-> n]

\* array_type: None for a plain type, Some((elem, length)) for an array
array_type(ty) ==
  IF ty.arr
  THEN [some |-> TRUE, elem |-> ty.elem,
        len |-> IF ty.lit THEN LenInt(ty.n) ELSE LenConst(ty.n)]
  ELSE [some |-> FALSE, elem |-> ty.elem, len |-> LenInt(0)]

(***************************************************************************)
(* Procedure synthesizer: the generated tokens.                            *)
(***************************************************************************)
ReadFns == {"read_le", "read_be", "read_ne", "read"}
WriteFns == {"write_le", "write_be", "write_ne", "write"}

\* one element procedure `<ty as Trait>::fn(arg, stream)?`; arg is the
\* field whose value `&self.arg` is passed, 0 when none is
Token(fn, ty, arg) == [fn |-> fn, ty |-> ty, arg |-> arg]

\* get_func
get_func(ty, endian, field_name, rd) ==
  IF rd
  THEN CASE endian = "Little" -> Token("read_le", ty, 0)
         [] endian = "Big" -> Token("read_be", ty, 0)
         [] endian = "Native" -> Token("read_ne", ty, 0)
         [] endian = "Normal" -> Token("read", ty, 0)
  ELSE CASE endian = "Little" -> Token("write_le", ty, field_name)
         [] endian = "Big" -> Token("write_be", ty, field_name)
         [] endian = "Native" -> Token("write_ne", ty, field_name)
         [] endian = "Normal" -> Token("write", ty, field_name)

\* get_body: the unrolled expansion of a literal length (a bare token when
\* there is exactly one, a bracketed list otherwise), or the loop over a
\* constant expression that fills `[0; expr]`
get_body(token, elem_ty, ty_length) ==
  IF ty_length.k = "Int"
  THEN LET tokens == [i \in 1..ty_length.n |-> token] IN
       IF Len(tokens) = 1
       THEN [form |-> "plain", tokens |-> tokens, elem_ty |-> elem_ty, n |-> 1]
       ELSE [form |-> "array", tokens |-> tokens, elem_ty |-> elem_ty,
             n |-> Len(tokens)]
  ELSE [form |-> "loop", tokens |-> <<token>>, elem_ty |-> elem_ty,
        n |-> ty_length.n]

NoBody == [form |-> "none", tokens |-> <<>>, elem_ty |-> "", n |-> 0]

\* the length of a padding buffer: `size_of::<of>() * times`, or the
\* literal `times` when of is ""
SizeExpr(of, times) == [of |-> of, times |-> times]

\* Body whose padding read lacks the `?`: a short read is not propagated
Body_NoTry(pad, rd, elem_ty, elements, func_body, default_func_body) ==
  IF pad.k = "None"
  THEN [kind |-> "body", size |-> SizeExpr("", 0), try |-> TRUE,
        body |-> func_body]
  ELSE IF rd
  THEN [kind |-> "pad_read",
        size |-> IF pad.k = "Normal" THEN SizeExpr(elem_ty, elements.n)
                 ELSE SizeExpr("", pad.n),
        try |-> FALSE, body |-> default_func_body]
  ELSE [kind |-> "pad_write",
        size |-> IF pad.k = "Normal" THEN SizeExpr("$elem_ty", elements.n)
                 ELSE SizeExpr("", pad.n),
        try |-> FALSE, body |-> NoBody]

\* `let body = ...` of the closure in derive_macro: the padding buffer and
\* the default values in place of the element procedures when the field
\* carries padding, the element procedures otherwise.  try is the `?` on the
\* stream operation of the padding.
Body(pad, rd, elem_ty, elements, func_body, default_func_body) ==
  IF pad.k = "Normal"
  THEN IF rd
       THEN [kind |-> "pad_read", size |-> SizeExpr(elem_ty, elements.n),
             try |-> TRUE, body |-> default_func_body]
       ELSE [kind |-> "pad_write", size |-> SizeExpr("$elem_ty", elements.n),
             try |-> FALSE, body |-> NoBody]
  ELSE IF pad.k = "Bytes"
  THEN IF rd
       THEN [kind |-> "pad_read", size |-> SizeExpr("", pad.n),
             try |-> TRUE, body |-> default_func_body]
       ELSE [kind |-> "pad_write", size |-> SizeExpr("", pad.n),
             try |-> FALSE, body |-> NoBody]
  ELSE [kind |-> "body", size |-> SizeExpr("", 0), try |-> TRUE,
        body |-> func_body]

\* the closure of `fields.iter().map(..)` in derive_macro, for one field
impl_field(f, rd) ==
  LET at == array_type(f.ty)
      elem_ty == IF at.some THEN at.elem ELSE f.ty.elem
      elements == IF at.some THEN at.len ELSE LenInt(1)
      attrs == f.attrs
      func_token == get_func(elem_ty, attrs.endian, f.name, rd)
      func_body == get_body(func_token, elem_ty, elements)
      default_func_token == Token("default", elem_ty, 0)
      default_func_body == get_body(default_func_token, elem_ty, elements)
      body == Body(attrs.padding, rd, elem_ty, elements, func_body,
                   default_func_body)
  IN [field |-> f.name, kind |-> body.kind, size |-> body.size,
      try |-> body.try, body |-> body.body]

\* impl_fields with the pieces laid out last field first
impl_fields_Reversed(fields, rd) ==
  [i \in 1..Len(fields) |-> impl_field(fields[Len(fields) + 1 - i], rd)]

\* impl_fields as `#(#impl_fields,)*` and `#(#impl_fields;)*` lay it out:
\* one piece per field, in the order of the field list
impl_fields(fields, rd) == [i \in 1..Len(fields) |-> impl_field(fields[i], rd)]

(***************************************************************************)
(* The build of the generated tokens: the types the compiler checks.       *)
(***************************************************************************)
\* the type of one element procedure after `?`: the unit of a write, the
\* element type of a read or of Default::default()
TokenType(tok) == IF tok.fn \in WriteFns THEN "()" ELSE tok.ty

\* a write passes `&self.field`, of the declared type of the field, where
\* the element procedure takes a `&ty`
OperandOk(tok, f) ==
  tok.fn \in WriteFns => (~f.ty.arr /\ f.ty.elem = tok.ty)

\* the type of a body: the bare token, the bracketed list (of an element
\* type left to inference when the list is empty), or the declared
\* `[elem_ty; expr]` of the loop
BodyType(b) ==
  IF b.form = "plain"
  THEN [arr |-> FALSE, elem |-> TokenType(b.tokens[1]), n |-> 1]
  ELSE IF b.form = "array"
  THEN [arr |-> TRUE,
        elem |-> IF Len(b.tokens) = 0 THEN "_" ELSE TokenType(b.tokens[1]),
        n |-> Len(b.tokens)]
  ELSE [arr |-> TRUE, elem |-> b.elem_ty, n |-> b.n]

\* inside a body: every operand fits, and the loop assigns its token to an
\* element of `[0; expr]`, an array of integers
BodyChecks(b, f) ==
  /\ \A i \in 1..Len(b.tokens) : OperandOk(b.tokens[i], f)
  /\ b.form = "loop" =>
       /\ TokenType(b.tokens[1]) = b.elem_ty
       /\ b.elem_ty \in Types

\* `field_name: body` initialises a field of the declared type
Fits(t, decl) ==
  /\ t.arr = decl.arr
  /\ t.elem = decl.elem \/ (t.arr /\ t.elem = "_")
  /\ t.arr => t.n = decl.n

\* `size_of::<of>()` needs a type; `$elem_ty` is not one
SizeOk(size) == size.of = "" \/ size.of \in Types

\* whether the compiler accepts the piece of field f
PieceBuilds(p, f, rd) ==
  IF rd
  THEN /\ SizeOk(p.size)
       /\ BodyChecks(p.body, f)
       /\ Fits(BodyType(p.body), f.ty)
  ELSE IF p.kind = "pad_write"
  THEN SizeOk(p.size)
  ELSE /\ BodyChecks(p.body, f)
       /\ BodyType(p.body).elem # "_"

(***************************************************************************)
(* The codecs of the element types and the streams.                        *)
(***************************************************************************)
\* the byte order an element procedure uses
Order(fn, nat) ==
  CASE fn \in {"read_le", "write_le"} -> "le"
    [] fn \in {"read_be", "write_be"} -> "be"
    [] OTHER -> nat

Encode(ty, order, x) ==
  IF ty = "u8" THEN <<x % 256>>
  ELSE IF order = "le" THEN <<x % 256, (x \div 256) % 256>>
  ELSE <<(x \div 256) % 256, x % 256>>

Decode(ty, order, bs) ==
  IF ty = "u8" THEN bs[1]
  ELSE IF order = "le" THEN bs[1] + 256 * bs[2]
  ELSE 256 * bs[1] + bs[2]

\* <ty as Default>::default()
Zero(ty) == 0

\* field values: a plain value, or an array of elements
Scalar(x) == [arr |-> FALSE, v |-> <<x>>]
Array(xs) == [arr |-> TRUE, v |-> xs]

Zeros(n) == [i \in 1..n |-> 0]
SizeBytes(size) ==
  IF size.of = "" THEN size.times ELSE SizeOf(size.of) * size.times

Op(call, bytes, ok) == [call |-> call, bytes |-> bytes, ok |-> ok]

(***************************************************************************)
(* The generated read procedure, one piece.                                *)
(***************************************************************************)
\* one element procedure of a body; st is [ok, pos, vals, ops]
ReadToken(tok, st, input, nat) ==
  IF tok.fn = "default"
  THEN [st EXCEPT !.vals = Append(@, Zero(tok.ty))]
  ELSE LET sz == SizeOf(tok.ty) IN
       IF st.pos + sz <= Len(input)
       THEN LET bs == SubSeq(input, st.pos + 1, st.pos + sz) IN
            [ok |-> TRUE, pos |-> st.pos + sz,
             vals |-> Append(st.vals, Decode(tok.ty, Order(tok.fn, nat), bs)),
             ops |-> Append(st.ops, Op(tok.fn, bs, TRUE))]
       ELSE [ok |-> FALSE, pos |-> Len(input), vals |-> st.vals,
             ops |-> Append(st.ops, Op(tok.fn, <<>>, FALSE))]

\* the element procedures in sequence; `?` returns at the first failure
RECURSIVE ReadTokens(_, _, _, _, _)
ReadTokens(tokens, i, st, input, nat) ==
  IF i > Len(tokens) \/ ~st.ok THEN st
  ELSE ReadTokens(tokens, i + 1, ReadToken(tokens[i], st, input, nat), input, nat)

\* the tokens a body runs: as listed, or once per index of the loop
Unrolled(b) ==
  IF b.form = "loop" THEN [i \in 1..b.n |-> b.tokens[1]] ELSE b.tokens

\* `reader.read_exact(&mut pad_buf)?`
PadRead(p, st, input) ==
  LET need == SizeBytes(p.size) IN
  IF st.pos + need <= Len(input)
  THEN [st EXCEPT !.pos = @ + need,
                  !.ops = Append(@, Op("read_exact",
                                       SubSeq(input, st.pos + 1, st.pos + need),
                                       TRUE))]
  ELSE [st EXCEPT !.ok = ~p.try, !.pos = Len(input),
                  !.ops = Append(@, Op("read_exact", <<>>, FALSE))]

\* the piece of one field: [ok, pos, ops, val]
ExecRead(p, input, at, nat) ==
  LET st0 == [ok |-> TRUE, pos |-> at, vals |-> <<>>, ops |-> <<>>]
      st1 == IF p.kind = "pad_read" THEN PadRead(p, st0, input) ELSE st0
      st2 == ReadTokens(Unrolled(p.body), 1, st1, input, nat)
  IN [ok |-> st2.ok, pos |-> st2.pos, ops |-> st2.ops,
      val |-> IF ~st2.ok THEN Array(<<>>)
              ELSE IF p.body.form = "plain" THEN Scalar(st2.vals[1])
              ELSE Array(st2.vals)]

(***************************************************************************)
(* The generated write procedure, one piece.                               *)
(***************************************************************************)
\* one call on the writer; st is [ok, out, wleft, ops].  Nothing to write
\* succeeds without reaching the writer.
WriteCall(call, bytes, try, st) ==
  IF bytes = <<>>
  THEN [st EXCEPT !.ops = Append(@, Op(call, bytes, TRUE))]
  ELSE IF st.wleft > 0
  THEN [ok |-> st.ok, out |-> st.out \o bytes, wleft |-> st.wleft - 1,
        ops |-> Append(st.ops, Op(call, bytes, TRUE))]
  ELSE [ok |-> st.ok /\ ~try, out |-> st.out, wleft |-> 0,
        ops |-> Append(st.ops, Op(call, bytes, FALSE))]

\* one element procedure: encodes the value of `&self.arg`
WriteToken(tok, st, me, nat) ==
  WriteCall(tok.fn, Encode(tok.ty, Order(tok.fn, nat), me[tok.arg].v[1]),
            TRUE, st)

RECURSIVE WriteTokens(_, _, _, _, _)
WriteTokens(tokens, i, st, me, nat) ==
  IF i > Len(tokens) \/ ~st.ok THEN st
  ELSE WriteTokens(tokens, i + 1, WriteToken(tokens[i], st, me, nat), me, nat)

\* the piece of one field: [ok, out, wleft, ops]
ExecWrite(p, me, o, w, nat) ==
  LET st0 == [ok |-> TRUE, out |-> o, wleft |-> w, ops |-> <<>>] IN
  IF p.kind = "pad_write"
  THEN WriteCall("write_all", Zeros(SizeBytes(p.size)), p.try, st0)
  ELSE WriteTokens(Unrolled(p.body), 1, st0, me, nat)

(***************************************************************************)
(* The records, streams and values the model draws.                        *)
(***************************************************************************)
FieldTypes ==
  {ScalarTy(e) : e \in Types}
    \cup {ArrayTy(e, lit, n) : e \in Types, lit \in BOOLEAN, n \in 0..MaxLen}

\* every value Attributes::new can return
AttrValues ==
  [endian : Endians,
   padding : {PadNone, PadNormal} \cup {PadBytes(n) : n \in 0..MaxPad}]

FieldKinds == [ty : FieldTypes, attrs : AttrValues]

\* the fields that stand around the field under study
PlainKinds ==
  {[ty |-> ScalarTy("u16"), attrs |-> [endian |-> "Little", padding |-> PadNone]],
   [ty |-> ScalarTy("u8"), attrs |-> [endian |-> "Normal", padding |-> PadBytes(1)]]}

Named(k, i) == [name |-> i, ty |-> k.ty, attrs |-> k.attrs]

\* the records: one field of any kind at any position among plain fields;
\* the name of a field is its position in the declaration
Records ==
  UNION {{[i \in 1..n |-> Named(IF i = at THEN k ELSE plain[i], i)] :
            k \in FieldKinds, plain \in [1..n -> PlainKinds]} :
         n \in 1..MaxFields, at \in 1..MaxFields}

\* an input stream of n bytes, all different and none zero
Pattern(n) == [i \in 1..n |-> i]

Vals(ty) == IF ty = "u8" THEN {7, 200} ELSE {258, 300}

FieldValues(f) ==
  IF f.ty.arr THEN {Array(xs) : xs \in [1..f.ty.n -> Vals(f.ty.elem)]}
  ELSE {Scalar(x) : x \in Vals(f.ty.elem)}

\* the values of a record: one value per field
RECURSIVE RecValues(_)
RecValues(r) ==
  IF r = <<>> THEN {<<>>}
  ELSE {Append(vs, v) : vs \in RecValues(SubSeq(r, 1, Len(r) - 1)),
                        v \in FieldValues(r[Len(r)])}

\* the write calls the pieces make when none fails
RECURSIVE NumCalls(_, _)
NumCalls(ps, i) ==
  IF i > Len(ps) THEN 0
  ELSE (IF ps[i].kind = "pad_write" THEN 1 ELSE Len(Unrolled(ps[i].body)))
         + NumCalls(ps, i + 1)

(***************************************************************************)
(* The state machine of Spec.                                              *)
(***************************************************************************)
InitRunVars ==
  /\ read = TRUE
  /\ phase = "declared"
  /\ pieces = <<>>
  /\ bad = {}
  /\ inp = <<>>
  /\ pos = 0
  /\ out = <<>>
  /\ wleft = 0
  /\ selfv = <<>>
  /\ value = <<>>
  /\ fi = 0
  /\ trace = <<>>
  /\ status = ""
  /\ rt = FALSE

\* whether the bytes of some field depend on the byte order of the target
UsesNative(r) ==
  \E i \in 1..Len(r) :
    /\ r[i].attrs.padding = PadNone
    /\ r[i].attrs.endian \in {"Native", "Normal"}
    /\ SizeOf(r[i].ty.elem) > 1

\* the target is little-endian or big-endian; it is drawn when it matters
Init ==
  /\ InitAttrVars
  /\ rec \in Records
  /\ native \in IF UsesNative(rec) THEN {"le", "be"} ELSE {"le"}
  /\ InitRunVars

\* derive_macro(input, read)
Derive(rd) ==
  /\ phase = "declared"
  /\ read' = rd
  /\ pieces' = impl_fields(rec, rd)
  /\ phase' = "derived"
  /\ UNCHANGED <<rec, native, bad, inp, pos, out, wleft, selfv, value, fi,
                 trace, status, rt>>
  /\ UNCHANGED attrVars

\* derive_read_struct
DeriveRead == Derive(TRUE)

\* derive_write_struct
DeriveWrite == Derive(FALSE)

\* the compiler on the expanded impl: it builds, or the build fails
Build ==
  /\ phase = "derived"
  /\ bad' = {pieces[i].field : i \in
               {j \in 1..Len(pieces) :
                  ~PieceBuilds(pieces[j], rec[pieces[j].field], read)}}
  /\ phase' = IF bad' = {} THEN "built" ELSE "done"
  /\ status' = IF bad' = {} THEN "" ELSE "build_error"
  /\ UNCHANGED <<rec, native, read, pieces, inp, pos, out, wleft, selfv, value,
                 fi, trace, rt>>
  /\ UNCHANGED attrVars

\* a call of the generated read on a reader: fresh input, or the bytes a
\* write of the same record produced
CallRead ==
  /\ phase = "built"
  /\ read
  /\ \E n \in 0..MaxIn : inp' = IF rt THEN out ELSE Pattern(n)
  /\ pos' = 0
  /\ value' = <<>>
  /\ fi' = 1
  /\ trace' = <<>>
  /\ phase' = "running"
  /\ UNCHANGED <<rec, native, read, pieces, bad, out, wleft, selfv, status, rt>>
  /\ UNCHANGED attrVars

\* a call of the generated write on a value and a writer
CallWrite ==
  /\ phase = "built"
  /\ ~read
  /\ selfv' \in RecValues(rec)
  /\ wleft' \in 0..NumCalls(pieces, 1)
  /\ out' = <<>>
  /\ fi' = 1
  /\ trace' = <<>>
  /\ phase' = "running"
  /\ UNCHANGED <<rec, native, read, pieces, bad, inp, pos, value, status, rt>>
  /\ UNCHANGED attrVars

\* the next `field_name: body` of `Ok(Self { .. })`
ReadField ==
  /\ phase = "running"
  /\ read
  /\ fi <= Len(pieces)
  /\ LET p == pieces[fi]
         r == ExecRead(p, inp, pos, native) IN
     /\ pos' = r.pos
     /\ trace' = Append(trace, [field |-> p.field, pos0 |-> pos, pos1 |-> r.pos,
                                out0 |-> 0, out1 |-> 0, ops |-> r.ops,
                                ok |-> r.ok])
     /\ IF r.ok
        THEN /\ value' = (p.field :> r.val) @@ value
             /\ fi' = fi + 1
             /\ UNCHANGED <<phase, status>>
        ELSE /\ phase' = "done"
             /\ status' = "err"
             /\ UNCHANGED <<value, fi>>
  /\ UNCHANGED <<rec, native, read, pieces, bad, inp, out, wleft, selfv, rt>>
  /\ UNCHANGED attrVars

\* `Ok(Self { .. })` once every field is read
ReturnRead ==
  /\ phase = "running"
  /\ read
  /\ fi > Len(pieces)
  /\ phase' = "done"
  /\ status' = "ok"
  /\ UNCHANGED <<rec, native, read, pieces, bad, inp, pos, out, wleft, selfv,
                 value, fi, trace, rt>>
  /\ UNCHANGED attrVars

\* the next `body;` of the generated write
WriteField ==
  /\ phase = "running"
  /\ ~read
  /\ fi <= Len(pieces)
  /\ LET p == pieces[fi]
         r == ExecWrite(p, selfv, out, wleft, native) IN
     /\ out' = r.out
     /\ wleft' = r.wleft
     /\ trace' = Append(trace, [field |-> p.field, pos0 |-> 0, pos1 |-> 0,
                                out0 |-> Len(out), out1 |-> Len(r.out),
                                ops |-> r.ops, ok |-> r.ok])
     /\ IF r.ok
        THEN /\ fi' = fi + 1
             /\ UNCHANGED <<phase, status>>
        ELSE /\ phase' = "done"
             /\ status' = "err"
             /\ UNCHANGED fi
  /\ UNCHANGED <<rec, native, read, pieces, bad, inp, pos, selfv, value, rt>>
  /\ UNCHANGED attrVars

\* `Ok(())` once every field is written
ReturnWrite ==
  /\ phase = "running"
  /\ ~read
  /\ fi > Len(pieces)
  /\ phase' = "done"
  /\ status' = "ok"
  /\ UNCHANGED <<rec, native, read, pieces, bad, inp, pos, out, wleft, selfv,
                 value, fi, trace, rt>>
  /\ UNCHANGED attrVars

\* the Read derive of the same record, to read back what write returned
ReadBack ==
  /\ phase = "done"
  /\ ~read
  /\ status = "ok"
  /\ read' = TRUE
  /\ rt' = TRUE
  /\ pieces' = impl_fields(rec, TRUE)
  /\ phase' = "derived"
  /\ status' = ""
  /\ fi' = 0
  /\ trace' = <<>>
  /\ UNCHANGED <<rec, native, bad, inp, pos, out, wleft, selfv, value>>
  /\ UNCHANGED attrVars

Next ==
  \/ DeriveRead
  \/ DeriveWrite
  \/ Build
  \/ CallRead
  \/ CallWrite
  \/ ReadField
  \/ ReturnRead
  \/ WriteField
  \/ ReturnWrite
  \/ ReadBack

Spec == Init /\ [][Next]_vars

(***************************************************************************)
(* The state machine of SpecAttr.                                          *)
(***************************************************************************)
InitAttr ==
  /\ InitAttrVars
  /\ rec = <<>>
  /\ native = "le"
  /\ InitRunVars

NextAttr ==
  \/ ScanOther
  \/ ScanPad

SpecAttr == InitAttr /\ [][NextAttr]_vars

NextPad ==
  \/ ScanOther
  \/ ScanOnePad

SpecPad == InitAttr /\ [][NextPad]_vars

(***************************************************************************)
(* Claims about the attribute model (SpecAttr, SpecPad).                   *)
(***************************************************************************)
\* the identifiers of the scanned paths, in attribute order and, inside one
\* path, in segment order
RECURSIVE Flatten(_)
Flatten(ps) == IF ps = <<>> THEN <<>> ELSE Head(ps) \o Flatten(Tail(ps))

EndianOf(ident) ==
  CASE ident = "le" -> "Little" [] ident = "be" -> "Big" [] ident = "ne" -> "Native"

\* the byte order named by the last of le, be, ne among ids, Normal if none
LastDirective(ids) ==
  LET at == {i \in 1..Len(ids) : ids[i] \in {"le", "be", "ne"}} IN
  IF at = {} THEN "Normal"
  ELSE EndianOf(ids[CHOOSE i \in at : \A j \in at : j <= i])

PadScanned == \E i \in 1..Len(seen) : HasPad(seen[i])

\* the directive `bytes = <integer literal>` inside one delimited group
IsBytesDirective(ts) ==
  /\ Len(ts) = 1
  /\ ts[1].t = "Group"
  /\ Len(ts[1].inner) = 3
  /\ ts[1].inner[1] = Ident("bytes")
  /\ ts[1].inner[2] = Punct("=")
  /\ ts[1].inner[3].t = "Literal"
  /\ ts[1].inner[3].s = "Int"

\* C7: a pad directive with no arguments yields Auto (Padding::Normal),
\* `bytes = <integer literal>` yields Explicit(<integer>), and every other
\* token shape aborts generation: none is silently taken as Auto.
C7_PadDirective ==
  PadScanned =>
    IF parsed = <<>>
    THEN astatus = "scanning" /\ attributes.padding = PadNormal
    ELSE IF IsBytesDirective(parsed)
    THEN astatus = "scanning"
           /\ attributes.padding = PadBytes(parsed[1].inner[3].v)
    ELSE astatus = "panic"

(***************************************************************************)
(* Claims about the synthesized procedures (Spec).                         *)
(***************************************************************************)
Padded(f) == f.attrs.padding # PadNone
Derived == phase # "declared"
Checked == phase \notin {"declared", "derived"}

RECURSIVE Concat(_)
Concat(ss) == IF ss = <<>> THEN <<>> ELSE Head(ss) \o Concat(Tail(ss))

\* the bytes the operations of one piece run moved, in order
Moved(t) == Concat([j \in 1..Len(t.ops) |-> IF t.ops[j].ok THEN t.ops[j].bytes ELSE <<>>])

Failed(t) == \E j \in 1..Len(t.ops) : ~t.ops[j].ok

\* the byte order a field's directive selects
FieldOrder(f) ==
  CASE f.attrs.endian = "Little" -> "le"
    [] f.attrs.endian = "Big" -> "be"
    [] OTHER -> native

\* the repeat count of a field and the filler byte count of its padding
Repeat(f) == IF f.ty.arr THEN f.ty.n ELSE 1
FillerCount(f) ==
  IF f.attrs.padding.k = "Bytes" THEN f.attrs.padding.n
  ELSE SizeOf(f.ty.elem) * Repeat(f)

\* the encoding of one field on the wire: zero filler for a padded field,
\* its elements in position order otherwise
FieldEncoding(f, fv) ==
  IF Padded(f) THEN Zeros(FillerCount(f))
  ELSE Concat([j \in 1..Repeat(f) |-> Encode(f.ty.elem, FieldOrder(f), fv.v[j])])

\* the zero value of a field: of the element type, elementwise for an array
ZeroValue(f) == IF f.ty.arr THEN Array(Zeros(f.ty.n)) ELSE Scalar(0)

\* C1: read and write perform their per-field stream operations in the
\* declared field order: the k-th piece laid out and the k-th piece run
\* belong to the k-th declared field, each starts where the one before
\* ended, a read consumed exactly the bytes its operations moved, in order,
\* and a write produced exactly the bytes its operations moved, in order;
\* when every field was written without a failure the output is the
\* concatenation of the fields' encodings in declared order.
C1_DeclaredOrder ==
  /\ Derived => \A i \in 1..Len(pieces) : pieces[i].field = rec[i].name
  /\ \A k \in 1..Len(trace) :
       /\ trace[k].field = rec[k].name
       /\ k > 1 => /\ trace[k].pos0 = trace[k - 1].pos1
                   /\ trace[k].out0 = trace[k - 1].out1
       /\ k = 1 => trace[k].pos0 = 0 /\ trace[k].out0 = 0
  /\ (read /\ Len(trace) > 0 /\ ~Failed(trace[Len(trace)])) =>
       Concat([k \in 1..Len(trace) |-> Moved(trace[k])]) = SubSeq(inp, 1, pos)
  /\ (~read /\ Len(trace) > 0) =>
       Concat([k \in 1..Len(trace) |-> Moved(trace[k])]) = out
  /\ (~read /\ phase = "done" /\ status = "ok"
        /\ \A k \in 1..Len(trace) : ~Failed(trace[k])) =>
       out = Concat([i \in 1..Len(rec) |-> FieldEncoding(rec[i], selfv[i])])

\* a record of two fields written in full and read back in full, the first
\* field little-endian on two bytes
C1_Witness ==
  /\ rt /\ phase = "done" /\ status = "ok"
  /\ Len(rec) = 2 /\ Len(trace) = 2
  /\ rec[1].ty = ScalarTy("u16") /\ rec[1].attrs.endian = "Big"
  /\ ~Padded(rec[1]) /\ ~Padded(rec[2])
  /\ Len(out) = 4
  /\ pos = 4

\* C4: the first field whose stream read fails ends the read with that
\* failure: the failing operation is the last one performed, no later field
\* is read, no record is returned; a short read of padding bytes ends it
\* the same way as a short read of a value.
C4_ReadShortCircuit ==
  read =>
    /\ \A k \in 1..Len(trace) :
         Failed(trace[k]) =>
           /\ k = Len(trace)
           /\ ~trace[k].ok
           /\ \A j \in 1..Len(trace[k].ops) :
                ~trace[k].ops[j].ok => j = Len(trace[k].ops)
           /\ phase = "done"
           /\ status = "err"
           /\ trace[k].field \notin DOMAIN value
    /\ (phase = "done" /\ status = "ok") =>
         /\ Len(trace) = Len(rec)
         /\ \A k \in 1..Len(trace) : ~Failed(trace[k])
         /\ DOMAIN value = 1..Len(rec)

\* the input ran out inside the padding of the first of two fields
C4_Witness ==
  /\ read /\ phase = "done" /\ status = "err"
  /\ Len(rec) = 2 /\ Len(trace) = 1
  /\ Padded(rec[1])
  /\ trace[1].ops = <<Op("read_exact", <<>>, FALSE)>>
  /\ value = <<>>

\* C3: the first field whose stream write fails ends the write with that
\* failure and no write of a later field is performed, for every kind of
\* field, padded ones included.
C3_WriteShortCircuit ==
  ~read =>
    \A k \in 1..Len(trace) :
      Failed(trace[k]) =>
        /\ k = Len(trace)
        /\ phase = "done"
        /\ status = "err"

\* C5: writing a padded field emits exactly the filler byte count, all
\* zero, whatever the field's value and byte order directive: n bytes for
\* Explicit(n), element size times repeat count for Auto.
C5_PadWrite ==
  (~read /\ Checked) =>
    \A i \in 1..Len(rec) :
      Padded(rec[i]) =>
        /\ i \notin bad
        /\ \A k \in 1..Len(trace) :
             trace[k].field = i =>
               /\ Len(trace[k].ops) = 1
               /\ trace[k].ops[1].call = "write_all"
               /\ trace[k].ops[1].bytes = Zeros(FillerCount(rec[i]))

\* C6: reading a padded field consumes exactly the filler byte count, fails
\* when fewer bytes are left, and fills the field with the zero value of
\* the element type, elementwise for an array, without decoding anything.
C6_PadRead ==
  (read /\ Checked) =>
    \A i \in 1..Len(rec) :
      Padded(rec[i]) =>
        /\ i \notin bad
        /\ \A k \in 1..Len(trace) :
             trace[k].field = i =>
               IF trace[k].pos0 + FillerCount(rec[i]) <= Len(inp)
               THEN /\ trace[k].ok
                    /\ trace[k].pos1 = trace[k].pos0 + FillerCount(rec[i])
                    /\ Len(trace[k].ops) = 1
                    /\ trace[k].ops[1].call = "read_exact"
                    /\ value[i] = ZeroValue(rec[i])
               ELSE ~trace[k].ok

\* C2: for a record without padding, write builds for every shape and byte
\* order, each element write encodes the element at its own position, and
\* reading the written bytes back returns the value written.
C2_RoundTrip ==
  (\A i \in 1..Len(rec) : ~Padded(rec[i])) =>
    /\ (~read /\ Checked) =>
         /\ bad = {}
         /\ \A k \in 1..Len(trace) : \A j \in 1..Len(trace[k].ops) :
              trace[k].ops[j].bytes =
                Encode(rec[k].ty.elem, FieldOrder(rec[k]), selfv[k].v[j])
    /\ (rt /\ Checked) => bad = {}
    /\ (rt /\ phase = "done") =>
         /\ status = "ok"
         /\ \A i \in 1..Len(rec) : value[i] = selfv[i]

\* C9: a literal-length array field of length n, for every n >= 0, is
\* expanded to n element procedures collected in an array, performs n
\* element reads and yields an array of n elements; only a scalar field
\* yields a plain value.
C9_LiteralArray ==
  Derived =>
    \A i \in 1..Len(pieces) :
      LET f == rec[pieces[i].field] IN
      ~Padded(f) =>
        /\ (f.ty.arr /\ f.ty.lit) =>
             /\ pieces[i].body.form = "array"
             /\ Len(pieces[i].body.tokens) = f.ty.n
        /\ pieces[i].body.form = "plain" => ~f.ty.arr
        /\ (read /\ f.ty.arr /\ f.ty.lit) =>
             \A k \in 1..Len(trace) :
               (trace[k].field = f.name /\ trace[k].ok) =>
                 /\ Len(trace[k].ops) = f.ty.n
                 /\ value[f.name].arr
                 /\ Len(value[f.name].v) = f.ty.n

\* C10: an array whose symbolic length resolves to n behaves as the array
\* of literal length n: the same build, the same stream operations, the
\* same field value, for every n >= 0.
C10_SymbolicAsLiteral ==
  \A i \in 1..Len(rec) :
    (rec[i].ty.arr /\ ~rec[i].ty.lit) =>
      LET lit == [rec[i] EXCEPT !.ty.lit = TRUE]
          twin == impl_field(lit, read) IN
      /\ Checked => (i \in bad <=> ~PieceBuilds(twin, lit, read))
      /\ read =>
           \A k \in 1..Len(trace) :
             trace[k].field = i =>
               LET r == ExecRead(twin, inp, trace[k].pos0, native) IN
               /\ r.ok = trace[k].ok
               /\ r.ops = trace[k].ops
               /\ r.ok => r.val = value[i]

====
